---- MODULE Spec2Model ----
(***************************************************************************)
(* The lazy cleaning / classification / aggregation pipeline of            *)
(* iowa-sales-analyses.py (a marimo notebook over polars LazyFrames).      *)
(*                                                                         *)
(* The source dataset is a sequence of runs of identical rows (a run is a  *)
(* row and the number of times it repeats), so that samples of 1,000 rows  *)
(* are as cheap as samples of 3.  A LazyFrame is the list of steps it was  *)
(* built from; nothing is resolved or evaluated until a collect.           *)
(***************************************************************************)
EXTENDS Integers, Sequences, FiniteSets, TLC

VARIABLES
    schema,             \* lf.collect_schema(): the column names of the parquet file
    source,             \* the rows of the parquet file, as runs of identical rows
    threshold,          \* MISSING_VALUE_THRESHOLD, a fraction [num, den]
    pc,                 \* the notebook cell that runs next
    columns_to_drop,    \* returned by the missing-value cell
    df_cleaned,         \* the LazyFrame returned by the cleaning cell
    df_with_categories, \* the LazyFrame returned by the category cell
    results,            \* what each materializing cell has collected
    materialized,       \* collected DataFrame -> the number of rows it holds
    outcome             \* cell -> "ok" or the exception its collect raised

vars == <<schema, source, threshold, pc, columns_to_drop, df_cleaned,
          df_with_categories, results, materialized, outcome>>

-----------------------------------------------------------------------------
(* Cells of a polars column: null, or a value.  A strict cast or a strict  *)
(* strptime of a value it cannot convert does not produce a cell: it       *)
(* raises, which the evaluation below records as a cell of kind "raise".   *)

Null == [k |-> "null"]
Val(v) == [k |-> "val", v |-> v]
Raise == [k |-> "raise"]
IsNull(c) == c.k = "null"

-----------------------------------------------------------------------------
(* String literals, spelled out character by character: TLC cannot look    *)
(* inside a string, and str.contains has to.                               *)

Chars ==
    "WHISKEY" :> <<"W","H","I","S","K","E","Y">> @@
    "WHISKIES" :> <<"W","H","I","S","K","I","E","S">> @@
    "WHISKY" :> <<"W","H","I","S","K","Y">> @@
    "BOURBON" :> <<"B","O","U","R","B","O","N">> @@
    "SCOTCH" :> <<"S","C","O","T","C","H">> @@
    "VODKA" :> <<"V","O","D","K","A">> @@
    "RUM" :> <<"R","U","M">> @@
    "TEQUILA" :> <<"T","E","Q","U","I","L","A">> @@
    "MEZCAL" :> <<"M","E","Z","C","A","L">> @@
    "GIN" :> <<"G","I","N">> @@
    "BRANDY" :> <<"B","R","A","N","D","Y">> @@
    "BRANDIES" :> <<"B","R","A","N","D","I","E","S">> @@
    "COGNAC" :> <<"C","O","G","N","A","C">> @@
    "SCHNAPPS" :> <<"S","C","H","N","A","P","P","S">> @@
    "AMARETTO" :> <<"A","M","A","R","E","T","T","O">> @@
    "CORDIAL" :> <<"C","O","R","D","I","A","L">> @@
    "LIQUEUR" :> <<"L","I","Q","U","E","U","R">> @@
    "ANISETTE" :> <<"A","N","I","S","E","T","T","E">> @@
    "CREME" :> <<"C","R","E","M","E">> @@
    "ROCK & RYE" :> <<"R","O","C","K"," ","&"," ","R","Y","E">> @@
    "TRIPLE SEC" :> <<"T","R","I","P","L","E"," ","S","E","C">> @@
    "AMERICAN ALCOHOL" :> <<"A","M","E","R","I","C","A","N"," ","A","L","C","O","H","O","L">> @@
    "AMERICAN DISTILLED SPIRITS" :> <<"A","M","E","R","I","C","A","N"," ","D","I","S","T","I","L","L","E","D"," ","S","P","I","R","I","T","S">> @@
    "DISTILLED SPIRITS SPECIALTY" :> <<"D","I","S","T","I","L","L","E","D"," ","S","P","I","R","I","T","S"," ","S","P","E","C","I","A","L","T","Y">> @@
    "IMPORTED DISTILLED SPIRITS" :> <<"I","M","P","O","R","T","E","D"," ","D","I","S","T","I","L","L","E","D"," ","S","P","I","R","I","T","S">> @@
    "NEUTRAL GRAIN SPIRITS" :> <<"N","E","U","T","R","A","L"," ","G","R","A","I","N"," ","S","P","I","R","I","T","S">> @@
    "COCKTAIL" :> <<"C","O","C","K","T","A","I","L">> @@
    "RTD" :> <<"R","T","D">> @@
    "IOWA DISTILLER" :> <<"I","O","W","A"," ","D","I","S","T","I","L","L","E","R">> @@
    "DECANTERS" :> <<"D","E","C","A","N","T","E","R","S">> @@
    "DELISTED" :> <<"D","E","L","I","S","T","E","D">> @@
    "SPECIAL ORDER" :> <<"S","P","E","C","I","A","L"," ","O","R","D","E","R">> @@
    "HIGH PROOF BEER" :> <<"H","I","G","H"," ","P","R","O","O","F"," ","B","E","E","R">> @@
    "HOLIDAY VAP" :> <<"H","O","L","I","D","A","Y"," ","V","A","P">> @@
    "TEMPORARY" :> <<"T","E","M","P","O","R","A","R","Y">> @@
    "Iowa Distillery Whiskey" :> <<"I","o","w","a"," ","D","i","s","t","i","l","l","e","r","y"," ","W","h","i","s","k","e","y">> @@
    "Triple Sec" :> <<"T","r","i","p","l","e"," ","S","e","c">> @@
    "Unknown Spirit Blend" :> <<"U","n","k","n","o","w","n"," ","S","p","i","r","i","t"," ","B","l","e","n","d">> @@
    "Premium Vodka" :> <<"P","r","e","m","i","u","m"," ","V","o","d","k","a">> @@
    "Whiskey Cocktail" :> <<"W","h","i","s","k","e","y"," ","C","o","c","k","t","a","i","l">> @@
    "SPICED RUM" :> <<"S","P","I","C","E","D"," ","R","U","M">> @@
    "100% AGAVE TEQUILA" :> <<"1","0","0","%"," ","A","G","A","V","E"," ","T","E","Q","U","I","L","A">> @@
    "AMERICAN DRY GINS" :> <<"A","M","E","R","I","C","A","N"," ","D","R","Y"," ","G","I","N","S">> @@
    "IMPORTED BRANDIES" :> <<"I","M","P","O","R","T","E","D"," ","B","R","A","N","D","I","E","S">> @@
    "AMERICAN SCHNAPPS" :> <<"A","M","E","R","I","C","A","N"," ","S","C","H","N","A","P","P","S">> @@
    "NEUTRAL GRAIN SPIRITS" :> <<"N","E","U","T","R","A","L"," ","G","R","A","I","N"," ","S","P","I","R","I","T","S">> @@
    "COCKTAILS/RTD" :> <<"C","O","C","K","T","A","I","L","S","/","R","T","D">> @@
    "IOWA DISTILLERIES" :> <<"I","O","W","A"," ","D","I","S","T","I","L","L","E","R","I","E","S">> @@
    "SPECIAL ORDER ITEMS" :> <<"S","P","E","C","I","A","L"," ","O","R","D","E","R"," ","I","T","E","M","S">> @@
    "Virgin Cocktail Mix" :> <<"V","i","r","g","i","n"," ","C","o","c","k","t","a","i","l"," ","M","i","x">> @@
    "01/03/2022" :> <<"0","1","/","0","3","/","2","0","2","2">> @@
    "01/04/2022" :> <<"0","1","/","0","4","/","2","0","2","2">> @@
    "01/05/2022" :> <<"0","1","/","0","5","/","2","0","2","2">> @@
    "01/06/2022" :> <<"0","1","/","0","6","/","2","0","2","2">> @@
    "01/07/2022" :> <<"0","1","/","0","7","/","2","0","2","2">> @@
    "01/08/2022" :> <<"0","1","/","0","8","/","2","0","2","2">> @@
    "01/09/2022" :> <<"0","1","/","0","9","/","2","0","2","2">> @@
    "02/29/2024" :> <<"0","2","/","2","9","/","2","0","2","4">> @@
    "2022-01-07" :> <<"2","0","2","2","-","0","1","-","0","7">> @@
    "13/01/2022" :> <<"1","3","/","0","1","/","2","0","2","2">> @@
    "02/30/2022" :> <<"0","2","/","3","0","/","2","0","2","2">>

LowerCase == <<"a","b","c","d","e","f","g","h","i","j","k","l","m",
               "n","o","p","q","r","s","t","u","v","w","x","y","z">>
UpperCase == <<"A","B","C","D","E","F","G","H","I","J","K","L","M",
               "N","O","P","Q","R","S","T","U","V","W","X","Y","Z">>

\* (?i): letters compare by their upper-case form.
UpperOf ==
    [c \in {LowerCase[i] : i \in 1..Len(LowerCase)} |->
        UpperCase[CHOOSE i \in 1..Len(LowerCase) : LowerCase[i] = c]]
Fold(c) == IF c \in DOMAIN UpperOf THEN UpperOf[c] ELSE c

\* The literal `needle` occurs somewhere in `hay`, ignoring case.
ContainsLiteral(hay, needle) ==
    \E i \in 0..(Len(hay) - Len(needle)) :
        \A j \in 1..Len(needle) : Fold(hay[i + j]) = Fold(needle[j])

\* str.contains("(?i)A|B|C") on a value: some alternative occurs in it.
StrContains(text, alternatives) ==
    \E a \in alternatives : ContainsLiteral(Chars[text], Chars[a])

-----------------------------------------------------------------------------
(* The when/then chain of the category cell, in its declared order.        *)

Rules == <<
    [alts |-> {"WHISKEY", "WHISKIES", "WHISKY", "BOURBON", "SCOTCH"},
     label |-> "WHISKEY"],
    [alts |-> {"VODKA"}, label |-> "VODKA"],
    [alts |-> {"RUM"}, label |-> "RUM"],
    [alts |-> {"TEQUILA", "MEZCAL"}, label |-> "TEQUILA & MEZCAL"],
    [alts |-> {"GIN"}, label |-> "GIN"],
    [alts |-> {"BRANDY", "BRANDIES", "COGNAC"}, label |-> "BRANDY & COGNAC"],
    [alts |-> {"SCHNAPPS"}, label |-> "SCHNAPPS"],
    [alts |-> {"AMARETTO", "CORDIAL", "LIQUEUR", "ANISETTE", "CREME",
               "ROCK & RYE", "TRIPLE SEC"},
     label |-> "LIQUEURS & CORDIALS"],
    [alts |-> {"AMERICAN ALCOHOL", "AMERICAN DISTILLED SPIRITS",
               "DISTILLED SPIRITS SPECIALTY", "IMPORTED DISTILLED SPIRITS",
               "NEUTRAL GRAIN SPIRITS"},
     label |-> "SPECIALTY & OTHER SPIRITS"],
    [alts |-> {"COCKTAIL", "RTD"}, label |-> "READY-TO-DRINK"],
    [alts |-> {"IOWA DISTILLER"}, label |-> "CRAFT/LOCAL"],
    [alts |-> {"DECANTERS", "DELISTED", "SPECIAL ORDER", "HIGH PROOF BEER",
               "HOLIDAY VAP", "TEMPORARY"},
     label |-> "ADMINISTRATIVE/NON-PRODUCT"] >>

Otherwise == "UNCATEGORIZED"

\* A when-condition that a null meets.
NullMeets(cell, alternatives) ==
    cell.k = "null" \/ StrContains(cell.v, alternatives)
\* pl.col("Category Name").str.contains(...) as a when-condition: on a null
\* the predicate is null, and when() takes a null predicate as not met.
WhenMet(cell, alternatives) ==
    cell.k = "val" /\ StrContains(cell.v, alternatives)

RECURSIVE WhenThen(_, _)
\* A chain in which a later when() overrides an earlier one.
LastRuleWins(cell, i) ==
    IF i > Len(Rules) THEN Otherwise
    ELSE LET rest == WhenThen(cell, i + 1)
         IN  IF rest # Otherwise THEN rest
             ELSE IF WhenMet(cell, Rules[i].alts) THEN Rules[i].label
             ELSE Otherwise
\* pl.when(c1).then(l1).when(c2).then(l2)...otherwise(l0), from rule i on.
WhenThen(cell, i) ==
    IF i > Len(Rules) THEN Otherwise
    ELSE IF WhenMet(cell, Rules[i].alts) THEN Rules[i].label
    ELSE WhenThen(cell, i + 1)

\* The same chain with no .otherwise(): a row no rule matches gets null.
WithoutOtherwise(cell) ==
    IF WhenThen(cell, 1) = Otherwise THEN Null ELSE Val(WhenThen(cell, 1))
\* The "Category Name" texts of the modelled files, and the chain's value on
\* each of them and on null, computed once.
CategoryNames ==
    {"Iowa Distillery Whiskey", "Triple Sec", "Unknown Spirit Blend",
     "Premium Vodka", "Whiskey Cocktail", "SPICED RUM", "100% AGAVE TEQUILA",
     "AMERICAN DRY GINS", "IMPORTED BRANDIES", "AMERICAN SCHNAPPS",
     "NEUTRAL GRAIN SPIRITS", "COCKTAILS/RTD", "IOWA DISTILLERIES",
     "SPECIAL ORDER ITEMS", "Virgin Cocktail Mix"}
OrNull(values) == {Null} \cup {Val(v) : v \in values}
ChainValue == [cell \in OrNull(CategoryNames) |-> Val(WhenThen(cell, 1))]

\* The expression aliased "Major_Category", on a "Category Name" cell.
Major_Category(cell) == ChainValue[cell]

-----------------------------------------------------------------------------
(* Column names the notebook uses.                                         *)

ADDITIONAL_DROPS ==
    {"Address", "Vendor Number", "Item Number", "Pack", "Bottle Volume (ml)",
     "State Bottle Cost", "State Bottle Retail"}

NUMERIC_COLUMNS ==
    {"Bottles Sold", "Sale (Dollars)", "Volume Sold (Liters)",
     "Volume Sold (Gallons)"}

STRING_COLUMNS ==
    {"Store Name", "City", "Zip Code", "County", "Category", "Category Name",
     "Vendor Name", "Item Description"}

TemporalFeatures == {"Year", "Month", "Quarter", "Weekday", "is_weekend"}

\* Every column of the file that some cell names.
ExpectedColumns ==
    ADDITIONAL_DROPS \cup NUMERIC_COLUMNS \cup STRING_COLUMNS
        \cup {"Date", "Invoice/Item Number"}

-----------------------------------------------------------------------------
(* Rows.  A run is [n, cat, date, bottles, sale, gallons, county, city,    *)
(* invoice, nulls]: n identical rows whose "Category Name", "Date",        *)
(* "Bottles Sold", "Sale (Dollars)", "Volume Sold (Gallons)", "County",    *)
(* "City" and "Invoice/Item Number" cells are given, and whose other cells *)
(* are null exactly for the columns in `nulls`.                            *)

SourceCell(row, col) ==
    CASE col = "Category Name" -> row.cat
      [] col = "Date" -> row.date
      [] col = "Bottles Sold" -> row.bottles
      [] col = "Sale (Dollars)" -> row.sale
      [] col = "Volume Sold (Gallons)" -> row.gallons
      [] col = "County" -> row.county
      [] col = "City" -> row.city
      [] col = "Invoice/Item Number" /\ col \notin row.nulls -> row.invoice
      [] OTHER -> IF col \in row.nulls THEN Null ELSE Val("")

\* len(frame)
RECURSIVE Height(_)
Height(rows) ==
    IF rows = <<>> THEN 0 ELSE rows[1].n + Height(Tail(rows))

\* The frame itself, whatever k is.
WholeFrame(rows, k) == rows

\* frame.head(k): the first k rows.
RECURSIVE FrameHead(_, _)
FrameHead(rows, k) ==
    IF rows = <<>> \/ k <= 0 THEN <<>>
    ELSE IF rows[1].n <= k
         THEN <<rows[1]>> \o FrameHead(Tail(rows), k - rows[1].n)
         ELSE <<[rows[1] EXCEPT !.n = k]>>

\* frame.null_count()[col]
RECURSIVE NullCount(_, _)
NullCount(rows, col) ==
    IF rows = <<>> THEN 0
    ELSE (IF IsNull(SourceCell(rows[1], col)) THEN rows[1].n ELSE 0)
             + NullCount(Tail(rows), col)

-----------------------------------------------------------------------------
(* Floats that are quotients of integers, kept as fractions in lowest      *)
(* terms, so that equal values are equal records.                          *)

RECURSIVE GCD(_, _)
GCD(a, b) == IF b = 0 THEN a ELSE GCD(b, a % b)

\* a / b, for b > 0
Fraction(a, b) == LET g == GCD(a, b) IN [num |-> a \div g, den |-> b \div g]

\* k * q, for an integer k and a fraction q
Scaled(k, q) ==
    LET g == GCD(k, q.den) IN Fraction((k \div g) * q.num, q.den \div g)

\* q1 >= q2
FractionAtLeast(q1, q2) == q1.num * q2.den >= q2.num * q1.den

-----------------------------------------------------------------------------
(* The size-estimate cell.  DataFrame.estimated_size() is the byte size of *)
(* the frame's buffers, taken here as one byte for every cell.             *)

SIZE_SAMPLE_ROWS == 100000
SIZE_ESTIMATE_DIVISOR == 100000
FIRST_ROWS == 25
CellBytes == 1

\* sample.estimated_size()
EstimatedSize(frame, columns) == Height(frame) * Cardinality(columns) * CellBytes

\* sample_bytes * (num_rows / 100_000)
EstimatedTotalBytes(sample_bytes, num_rows) ==
    Scaled(sample_bytes, Fraction(num_rows, SIZE_ESTIMATE_DIVISOR))

-----------------------------------------------------------------------------
(* The missing-value cell.  A proportion is the float null_count / len,    *)
(* kept as the fraction it rounds: with at most 2,000,000 sampled rows no  *)
(* two distinct fractions round to the same double.  0 / 0 is NaN.         *)

SAMPLE_FOR_NULLS_ROWS == 2000000

MissingValueProportions(sample, columns) ==
    [col \in columns |->
        [num |-> NullCount(sample, col), den |-> Height(sample)]]

\* prop >= t on floats; every comparison with NaN is False.
AtLeast(prop, t) ==
    prop.den # 0 /\ prop.num * t.den >= t.num * prop.den
\* prop > t
MoreThan(prop, t) ==
    prop.den # 0 /\ prop.num * t.den > t.num * prop.den

\* [col for col, prop in missing_value_proportions.items() if prop > t]
ColumnsOverThreshold(props, t) ==
    {col \in DOMAIN props : MoreThan(props[col], t)}
\* [col for col, prop in missing_value_proportions.items() if prop >= t]
ColumnsToDrop(props, t) ==
    {col \in DOMAIN props : AtLeast(props[col], t)}

-----------------------------------------------------------------------------
(* LazyFrames.  A LazyFrame is the sequence of steps appended to the scan; *)
(* a step names the columns it reads and the columns it writes or drops.   *)
(* Appending a step checks nothing.  collect() first resolves the steps    *)
(* against the file's schema, and a step that names a column the frame     *)
(* does not have at that point raises ColumnNotFoundError.                 *)

DropStep(cols) == [op |-> "drop", reads |-> cols, writes |-> {}]
WithColumns(reads, writes) ==
    [op |-> "with_columns", reads |-> reads, writes |-> writes]

NotFound == [ok |-> FALSE, cols |-> {}]

\* One step against the columns of the frame it is applied to.
ResolveStep(cur, step) ==
    IF ~cur.ok \/ ~(step.reads \subseteq cur.cols) THEN NotFound
    ELSE IF step.op = "drop" THEN [ok |-> TRUE, cols |-> cur.cols \ step.reads]
    ELSE [ok |-> TRUE, cols |-> cur.cols \cup step.writes]

\* The schema of a LazyFrame over a file with the given columns.
RECURSIVE Resolve(_, _)
Resolve(steps, columns) ==
    IF steps = <<>> THEN [ok |-> TRUE, cols |-> columns]
    ELSE ResolveStep(Resolve(SubSeq(steps, 1, Len(steps) - 1), columns),
                     steps[Len(steps)])

-----------------------------------------------------------------------------
(* The expressions of the cleaning cell, a value at a time.  cast() and    *)
(* str.strptime() are called without strict=False, so a value they cannot  *)
(* convert raises when the expression is evaluated.                        *)

INT16_MIN == -32768
INT16_MAX == 32767

\* pl.col(col).cast(pl.Int16)
CastInt16(cell) ==
    IF cell.k # "val" THEN cell
    ELSE IF INT16_MIN <= cell.v /\ cell.v <= INT16_MAX THEN cell
    ELSE Raise

Digits == <<"0", "1", "2", "3", "4", "5", "6", "7", "8", "9">>
DigitValueOf == [c \in {Digits[i] : i \in 1..Len(Digits)} |->
                    (CHOOSE i \in 1..Len(Digits) : Digits[i] = c) - 1]
IsDigit(c) == c \in DOMAIN DigitValueOf
DigitValue(c) == DigitValueOf[c]

IsLeapYear(y) == (y % 4 = 0 /\ y % 100 # 0) \/ y % 400 = 0
DaysInMonth(y, m) ==
    IF m = 2 THEN (IF IsLeapYear(y) THEN 29 ELSE 28)
    ELSE IF m \in {4, 6, 9, 11} THEN 30 ELSE 31

\* '%m/%d/%Y' on zero-padded text: two digits, '/', two digits, '/', four
\* digits, naming a day of the calendar.
ParseDate(c) ==
    IF /\ Len(c) = 10
       /\ c[3] = "/" /\ c[6] = "/"
       /\ \A i \in {1, 2, 4, 5, 7, 8, 9, 10} : IsDigit(c[i])
    THEN LET m == 10 * DigitValue(c[1]) + DigitValue(c[2])
             d == 10 * DigitValue(c[4]) + DigitValue(c[5])
             y == 1000 * DigitValue(c[7]) + 100 * DigitValue(c[8])
                    + 10 * DigitValue(c[9]) + DigitValue(c[10])
         IN  IF m \in 1..12 /\ d >= 1 /\ d <= DaysInMonth(y, m)
             THEN Val([year |-> y, month |-> m, day |-> d])
             ELSE Raise
    ELSE Raise

\* pl.col('Date').str.strptime(pl.Date, '%m/%d/%Y')
Strptime(cell) ==
    IF cell.k # "val" THEN cell ELSE ParseDate(Chars[cell.v])

\* dt.weekday(): the ISO day of the week, Monday = 1 ... Sunday = 7.
MonthOffset == <<0, 3, 2, 5, 0, 3, 5, 1, 4, 6, 2, 4>>
IsoWeekday(date) ==
    LET y == IF date.month < 3 THEN date.year - 1 ELSE date.year
        r == (y + (y \div 4) - (y \div 100) + (y \div 400)
                + MonthOffset[date.month] + date.day) % 7
    IN  IF r = 0 THEN 7 ELSE r

\* dt.quarter()
QuarterOf(date) == ((date.month - 1) \div 3) + 1

\* pl.col('Date').dt.weekday() >= 5
WeekdayAtLeast5(date) == IsoWeekday(date) >= 5

\* A dt expression over the parsed "Date": null stays null.
OverDate(cell, col) ==
    IF cell.k # "val" THEN cell
    ELSE CASE col = "Year" -> Val(cell.v.year)
           [] col = "Month" -> Val(cell.v.month)
           [] col = "Quarter" -> Val(QuarterOf(cell.v))
           [] col = "Weekday" -> Val(IsoWeekday(cell.v))
           [] col = "is_weekend" -> Val(WeekdayAtLeast5(cell.v))

\* The cell of column `col` in a row of df_cleaned / df_with_categories.
\* cast(pl.Float64) of a number and cast(pl.Utf8) of text change nothing.
EvalCell(row, col) ==
    CASE col = "Bottles Sold" -> CastInt16(row.bottles)
      [] col = "Date" -> Strptime(row.date)
      [] col \in TemporalFeatures -> OverDate(Strptime(row.date), col)
      [] col = "Major_Category" -> Major_Category(row.cat)
      [] OTHER -> SourceCell(row, col)

\* query.collect() of a query over `lf` that reads the columns `reads`:
\* the steps are resolved first; then only the columns the query reads are
\* computed (projection pushdown), over every row of the file.
Collect(lf, reads) ==
    LET r == Resolve(lf, schema)
    IN  IF ~r.ok \/ ~(reads \subseteq r.cols) THEN "ColumnNotFoundError"
        ELSE IF \E i \in 1..Len(source) : \E c \in reads :
                    EvalCell(source[i], c).k = "raise"
             THEN "InvalidOperationError"
             ELSE "ok"

-----------------------------------------------------------------------------
(* Reductions over the rows of a frame.                                    *)

\* The distinct cells of a column: the groups of group_by(col).
Groups(rows, col) == {EvalCell(rows[i], col) : i \in 1..Len(rows)}

\* pl.col("Category Name").count() within the group `key`: nulls are not
\* counted.
RECURSIVE GroupCount(_, _, _)
GroupCount(rows, col, key) ==
    IF rows = <<>> THEN 0
    ELSE (IF EvalCell(rows[1], col) = key /\ ~IsNull(rows[1].cat)
          THEN rows[1].n ELSE 0)
             + GroupCount(Tail(rows), col, key)

\* pl.len() within the group `key` of group_by(col)
RECURSIVE GroupLen(_, _, _)
GroupLen(rows, col, key) ==
    IF rows = <<>> THEN 0
    ELSE (IF EvalCell(rows[1], col) = key THEN rows[1].n ELSE 0)
             + GroupLen(Tail(rows), col, key)

\* pl.col(measure).sum() within the group `key`: nulls are skipped.
RECURSIVE GroupSum(_, _, _, _)
GroupSum(rows, col, key, measure) ==
    IF rows = <<>> THEN 0
    ELSE (IF EvalCell(rows[1], col) = key
              /\ EvalCell(rows[1], measure).k = "val"
          THEN rows[1].n * EvalCell(rows[1], measure).v ELSE 0)
             + GroupSum(Tail(rows), col, key, measure)

\* pl.col(measure).sum() over the whole frame
RECURSIVE ColumnSum(_, _)
ColumnSum(rows, measure) ==
    IF rows = <<>> THEN 0
    ELSE (IF EvalCell(rows[1], measure).k = "val"
          THEN rows[1].n * EvalCell(rows[1], measure).v ELSE 0)
             + ColumnSum(Tail(rows), measure)

\* The number of distinct non-null values within the group `key`.
NUniqueNonNull(rows, col, key, counted) ==
    Cardinality({EvalCell(rows[i], counted) :
                    i \in {j \in 1..Len(rows) :
                              /\ EvalCell(rows[j], col) = key
                              /\ EvalCell(rows[j], counted).k = "val"}})

\* pl.col(counted).n_unique() within the group `key`: null counts as one
\* more distinct value.
NUnique(rows, col, key, counted) ==
    Cardinality({EvalCell(rows[i], counted) :
                    i \in {j \in 1..Len(rows) : EvalCell(rows[j], col) = key}})

\* x / y on a Float64 and a UInt32 column: a float, never an exception
\* (0 / 0 is NaN, x / 0 is inf).
FloatDiv(x, y) ==
    IF y # 0 THEN [k |-> "val", v |-> Fraction(x, y)]
    ELSE IF x = 0 THEN [k |-> "NaN"] ELSE [k |-> "inf"]

\* group_by(col).agg([sum(measure), n_unique(counted)])
\*   .with_columns(total / n as avg), as a set of rows
GroupByRatio(rows, col, measure, counted) ==
    {[key |-> k,
      total |-> GroupSum(rows, col, k, measure),
      n |-> NUnique(rows, col, k, counted),
      avg |-> FloatDiv(GroupSum(rows, col, k, measure),
                       NUnique(rows, col, k, counted))] :
        k \in Groups(rows, col)}

\* .sort(avg, descending=True).head(n) on the ratios
TopNByAvg(groups, n) ==
    {SubSeq(s, 1, IF n < Len(s) THEN n ELSE Len(s)) :
        s \in {t \in [1..Cardinality(groups) -> groups] :
                  /\ \A i, j \in DOMAIN t : i # j => t[i] # t[j]
                  /\ \A i, j \in DOMAIN t :
                        (i < j /\ t[i].avg.k = "val" /\ t[j].avg.k = "val")
                            => FractionAtLeast(t[i].avg.v, t[j].avg.v)}}

\* group_by(col).agg(pl.len().alias('count')), as a set of rows
GroupByLen(rows, col) ==
    {[key |-> k, count |-> GroupLen(rows, col, k)] : k \in Groups(rows, col)}

\* group_by(col).agg(pl.col(measure).sum().alias(...)), as a set of rows
GroupBySum(rows, col, measure) ==
    {[key |-> k, total |-> GroupSum(rows, col, k, measure)] :
        k \in Groups(rows, col)}

\* .sort(total, ascending) on a grouped frame
SortAscending(groups) ==
    {s \in [1..Cardinality(groups) -> groups] :
        /\ \A i, j \in DOMAIN s : i # j => s[i] # s[j]
        /\ \A i, j \in DOMAIN s : i < j => s[i].total <= s[j].total}
\* .sort(total, descending=True) on a grouped frame: group_by yields its
\* groups in no particular order and equal totals may come out either way,
\* so every non-increasing arrangement of the groups is a possible result.
SortDescending(groups) ==
    {s \in [1..Cardinality(groups) -> groups] :
        /\ \A i, j \in DOMAIN s : i # j => s[i] # s[j]
        /\ \A i, j \in DOMAIN s : i < j => s[i].total >= s[j].total}

\* .head(n) of each arrangement
TopN(groups, n) ==
    {SubSeq(s, 1, IF n < Len(s) THEN n ELSE Len(s)) : s \in SortDescending(groups)}

-----------------------------------------------------------------------------
(* The cleaning cell's plan.                                               *)

\* list(set(columns_to_drop + ADDITIONAL_DROPS))
AllColumnsToDrop(to_drop) == to_drop \cup ADDITIONAL_DROPS

\* [col for col in all_columns_to_drop if col in lf.collect_schema()]
DropList(all_columns_to_drop, lf_columns) ==
    {col \in all_columns_to_drop : col \in lf_columns}

\* [... for col in STRING_COLUMNS if col in lf.collect_schema()]
StringCasts(lf_columns) == {col \in STRING_COLUMNS : col \in lf_columns}

\* lf.drop(...).with_columns(...).with_columns(...).with_columns(...)
\*   .with_columns(...)
CleaningPipeline(all_columns_to_drop, lf_columns) ==
    << DropStep(DropList(all_columns_to_drop, lf_columns)),
       WithColumns(NUMERIC_COLUMNS, NUMERIC_COLUMNS),
       WithColumns(StringCasts(lf_columns), StringCasts(lf_columns)),
       WithColumns({"Date"}, {"Date"}),
       WithColumns({"Date"}, TemporalFeatures) >>

\* df_cleaned.with_columns([pl.when(...)...alias("Major_Category")])
WithCategories(lf) ==
    Append(lf, WithColumns({"Category Name"}, {"Major_Category"}))

-----------------------------------------------------------------------------
(* The cells, in the order the notebook runs them.  A cell whose collect   *)
(* raises returns nothing; the cells that need what it returns do not run. *)

Ran(cell, o) == outcome' = (cell :> o) @@ outcome
Collected(cell, value) == results' = (cell :> value) @@ results
Holds(frames) == materialized' = frames @@ materialized

\* num_rows, sample, sample_bytes, estimated_total_bytes
SizeEstimateCell ==
    /\ pc = "size_estimate"
    /\ LET num_rows == Height(source)
           sample == FrameHead(source, SIZE_SAMPLE_ROWS)
           sample_bytes == EstimatedSize(sample, schema)
       IN  /\ Collected("size_estimate",
                 [num_rows |-> num_rows,
                  sample_bytes |-> sample_bytes,
                  estimated_total_bytes |->
                      EstimatedTotalBytes(sample_bytes, num_rows)])
           /\ Holds(("num_rows" :> 1) @@ ("sample" :> Height(sample)))
    /\ Ran("size_estimate", "ok")
    /\ pc' = "first_rows"
    /\ UNCHANGED <<schema, source, threshold, columns_to_drop, df_cleaned,
                   df_with_categories>>

\* lf.collect_schema(); lf.head(25).collect()
FirstRowsCell ==
    /\ pc = "first_rows"
    /\ Holds("first_rows" :> Height(FrameHead(source, FIRST_ROWS)))
    /\ Ran("first_rows", "ok")
    /\ pc' = "missing_values"
    /\ UNCHANGED <<schema, source, threshold, columns_to_drop, df_cleaned,
                   df_with_categories, results>>

\* sample_for_nulls, missing_value_proportions, columns_to_drop
MissingValueCell ==
    /\ pc = "missing_values"
    /\ LET sample_for_nulls == FrameHead(source, SAMPLE_FOR_NULLS_ROWS)
           missing_value_proportions ==
               MissingValueProportions(sample_for_nulls, schema)
       IN  /\ columns_to_drop' =
                  ColumnsToDrop(missing_value_proportions, threshold)
           /\ Holds("sample_for_nulls" :> Height(sample_for_nulls))
    /\ Ran("missing_values", "ok")
    /\ pc' = "cleaning"
    /\ UNCHANGED <<schema, source, threshold, df_cleaned, df_with_categories,
                   results>>

\* all_columns_to_drop, df_cleaned: built, not collected
CleaningCell ==
    /\ pc = "cleaning"
    /\ df_cleaned' = CleaningPipeline(AllColumnsToDrop(columns_to_drop), schema)
    /\ Ran("cleaning", "ok")
    /\ pc' = "unique_categories"
    /\ UNCHANGED <<schema, source, threshold, columns_to_drop,
                   df_with_categories, results, materialized>>

\* unique_categories = df_cleaned.select('Category').unique().sort(...).collect()
UniqueCategoriesCell ==
    /\ pc = "unique_categories"
    /\ LET o == Collect(df_cleaned, {"Category"})
       IN  /\ Ran("unique_categories", o)
           /\ IF o = "ok"
              THEN /\ Collected("unique_categories", Groups(source, "Category"))
                   /\ Holds("unique_categories" :>
                                Cardinality(Groups(source, "Category")))
              ELSE UNCHANGED <<results, materialized>>
    /\ pc' = "category_mapping"
    /\ UNCHANGED <<schema, source, threshold, columns_to_drop, df_cleaned,
                   df_with_categories>>

\* uncategorized: filter(Major_Category == 'UNCATEGORIZED')
\*   .group_by('Category Name').agg(pl.len())
Uncategorized(rows) ==
    GroupByLen(SelectSeq(rows,
                   LAMBDA r : EvalCell(r, "Major_Category") = Val("UNCATEGORIZED")),
               "Category Name")

\* sample_mappings: select(['Category Name', 'Major_Category']).unique()
SampleMappings(rows) ==
    {[name |-> EvalCell(rows[i], "Category Name"),
      label |-> EvalCell(rows[i], "Major_Category")] : i \in 1..Len(rows)}

\* df_with_categories, category_distribution, uncategorized, sample_mappings
CategoryCell ==
    /\ pc = "category_mapping"
    /\ LET lf == WithCategories(df_cleaned)
           o == Collect(lf, {"Category Name", "Major_Category"})
       IN  /\ Ran("category_mapping", o)
           /\ IF o = "ok"
              THEN /\ df_with_categories' = lf
                   /\ results' =
                        ("category_distribution" :>
                             GroupByLen(source, "Major_Category"))
                        @@ ("uncategorized" :> Uncategorized(source))
                        @@ ("sample_mappings" :> SampleMappings(source))
                        @@ results
                   /\ Holds(("category_distribution" :>
                                Cardinality(GroupByLen(source, "Major_Category")))
                            @@ ("uncategorized" :>
                                Cardinality(Uncategorized(source)))
                            @@ ("sample_mappings" :>
                                Cardinality(SampleMappings(source))))
                   /\ pc' = "summary"
              ELSE /\ UNCHANGED <<df_with_categories, results, materialized>>
                   /\ pc' = "done"
    /\ UNCHANGED <<schema, source, threshold, columns_to_drop, df_cleaned>>

\* summary_stats
SummaryCell ==
    /\ pc = "summary"
    /\ LET o == Collect(df_with_categories,
                        {"Sale (Dollars)", "Volume Sold (Gallons)", "Bottles Sold"})
       IN  /\ Ran("summary", o)
           /\ IF o = "ok"
              THEN /\ Collected("summary_stats",
                        [revenue |-> ColumnSum(source, "Sale (Dollars)"),
                         volume |-> ColumnSum(source, "Volume Sold (Gallons)"),
                         bottles |-> ColumnSum(source, "Bottles Sold"),
                         transactions |-> Height(source)])
                   /\ Holds("summary_stats" :> 1)
              ELSE UNCHANGED <<results, materialized>>
    /\ pc' = "top_categories"
    /\ UNCHANGED <<schema, source, threshold, columns_to_drop, df_cleaned,
                   df_with_categories>>

\* The notebook's head(10), head(15) and head(20), scaled down to the
\* handful of groups the modelled files hold so that the truncation takes
\* place.
TopCategoriesHead == 2
TopCountiesHead == 2
CityEfficiencyHead == 2

\* top_categories
TopCategoriesCell ==
    /\ pc = "top_categories"
    /\ LET o == Collect(df_with_categories, {"Major_Category", "Sale (Dollars)"})
       IN  /\ Ran("top_categories", o)
           /\ IF o = "ok"
              THEN \E top \in TopN(GroupBySum(source, "Major_Category",
                                              "Sale (Dollars)"),
                                   TopCategoriesHead) :
                       /\ Collected("top_categories", top)
                       /\ Holds("top_categories" :> Len(top))
              ELSE UNCHANGED <<results, materialized>>
    /\ pc' = "top_counties"
    /\ UNCHANGED <<schema, source, threshold, columns_to_drop, df_cleaned,
                   df_with_categories>>

\* top_counties
TopCountiesCell ==
    /\ pc = "top_counties"
    /\ LET o == Collect(df_with_categories, {"County", "Sale (Dollars)"})
       IN  /\ Ran("top_counties", o)
           /\ IF o = "ok"
              THEN \E top \in TopN(GroupBySum(source, "County", "Sale (Dollars)"),
                                   TopCountiesHead) :
                       /\ Collected("top_counties", top)
                       /\ Holds("top_counties" :> Len(top))
              ELSE UNCHANGED <<results, materialized>>
    /\ pc' = "city_efficiency"
    /\ UNCHANGED <<schema, source, threshold, columns_to_drop, df_cleaned,
                   df_with_categories>>

\* city_efficiency
CityEfficiencyCell ==
    /\ pc = "city_efficiency"
    /\ LET o == Collect(df_with_categories,
                        {"City", "Sale (Dollars)", "Invoice/Item Number"})
       IN  /\ Ran("city_efficiency", o)
           /\ IF o = "ok"
              THEN \E top \in TopNByAvg(GroupByRatio(source, "City",
                                             "Sale (Dollars)",
                                             "Invoice/Item Number"),
                                        CityEfficiencyHead) :
                       /\ Collected("city_efficiency", top)
                       /\ Holds("city_efficiency" :> Len(top))
              ELSE UNCHANGED <<results, materialized>>
    /\ pc' = "done"
    /\ UNCHANGED <<schema, source, threshold, columns_to_drop, df_cleaned,
                   df_with_categories>>

-----------------------------------------------------------------------------
(* The files the notebook is run on.                                       *)

MaxRows == 2          \* rows of a file that varies one column's values
MaxGroupRows == 3     \* rows of a file that varies group keys and measures
ScenarioRows == 1000  \* rows of a file that varies how many cells are null

DateTexts ==
    {"01/03/2022", "01/04/2022", "01/05/2022", "01/06/2022", "01/07/2022",
     "01/08/2022", "01/09/2022", "02/29/2024",
     "2022-01-07", "13/01/2022", "02/30/2022"}

BottleCounts == {12, INT16_MAX, INT16_MAX + 1, INT16_MIN, INT16_MIN - 1, 40000}

\* MISSING_VALUE_THRESHOLD = 0.10, and a second value to compare it with
TenPercent == [num |-> 1, den |-> 10]
Thresholds == {TenPercent, [num |-> 1, den |-> 2]}

TypicalRow ==
    [n |-> 1, cat |-> Val("Premium Vodka"), date |-> Val("01/03/2022"),
     bottles |-> Val(12), sale |-> Val(500), gallons |-> Val(2),
     county |-> Val("POLK"), city |-> Val("DES MOINES"),
     invoice |-> Val("INV-1"), nulls |-> {}]

SeqsUpTo(rows, max) == UNION {[1..k -> rows] : k \in 1..max}

\* Files whose rows differ in "Category Name".
CategoryFiles ==
    SeqsUpTo({[TypicalRow EXCEPT !.cat = c] : c \in OrNull(CategoryNames)},
             MaxRows)
    \cup { << [TypicalRow EXCEPT !.cat = Val("Iowa Distillery Whiskey")],
              [TypicalRow EXCEPT !.cat = Val("Triple Sec")],
              [TypicalRow EXCEPT !.cat = Val("Unknown Spirit Blend")],
              [TypicalRow EXCEPT !.cat = Null],
              [TypicalRow EXCEPT !.cat = Val("Premium Vodka")] >> }

\* Files whose rows differ in "Date", and in "Bottles Sold".
DateFiles ==
    SeqsUpTo({[TypicalRow EXCEPT !.date = d] : d \in OrNull(DateTexts)}, MaxRows)
BottleFiles ==
    SeqsUpTo({[TypicalRow EXCEPT !.bottles = b] : b \in OrNull(BottleCounts)},
             MaxRows)

\* Files whose rows differ in group key and measure.
KeyedRows ==
    {[TypicalRow EXCEPT !.county = g[1], !.cat = g[2], !.sale = g[3]] :
        g \in { <<Val("POLK"), Val("Premium Vodka"), Val(300)>>,
                <<Val("POLK"), Val("Premium Vodka"), Val(500)>>,
                <<Val("LINN"), Val("SPICED RUM"), Val(500)>>,
                <<Val("SCOTT"), Val("Triple Sec"), Val(500)>>,
                <<Val("SCOTT"), Val("Triple Sec"), Null>>,
                <<Null, Val("Unknown Spirit Blend"), Val(300)>> }}
GroupFiles == SeqsUpTo(KeyedRows, MaxGroupRows)

\* Files whose rows differ in "City", invoice number and sale.
CityRows ==
    {[TypicalRow EXCEPT !.city = g[1], !.invoice = g[2], !.sale = g[3]] :
        g \in { <<Val("DES MOINES"), Val("INV-1"), Val(500)>>,
                <<Val("DES MOINES"), Val("INV-2"), Val(300)>>,
                <<Val("AMES"), Null, Val(500)>>,
                <<Val("AMES"), Val("INV-3"), Null>>,
                <<Null, Null, Val(300)>>,
                <<Val("CEDAR RAPIDS"), Val("INV-4"), Val(0)>> }}
CityFiles == SeqsUpTo(CityRows, MaxGroupRows)

\* Files of ScenarioRows rows: two runs with null cells, then a run without.
NullableColumns == {"Zip Code", "Address", "Invoice/Item Number"}
NullRuns == {50, 100}
NullFiles ==
    { << [TypicalRow EXCEPT !.n = k1, !.nulls = s1],
         [TypicalRow EXCEPT !.n = k2, !.nulls = s2],
         [TypicalRow EXCEPT !.n = ScenarioRows - k1 - k2] >> :
        k1 \in NullRuns, k2 \in NullRuns,
        s1 \in SUBSET NullableColumns, s2 \in SUBSET NullableColumns }
    \cup { <<>> }
    \cup { << [TypicalRow EXCEPT !.n = SAMPLE_FOR_NULLS_ROWS],
              [TypicalRow EXCEPT !.n = ScenarioRows, !.nulls = s] >> :
            s \in SUBSET NullableColumns }

\* Schemas: every expected column, or all but some.
Schemas == {ExpectedColumns} \cup {ExpectedColumns \ {c} : c \in ExpectedColumns}
PrunedSchemas ==
    {ExpectedColumns, ExpectedColumns \ {"Address"},
     ExpectedColumns \ {"Pack", "Item Number"}, ExpectedColumns \ {"Zip Code"}}

\* Some "Category Name", "Date", "Bottles Sold", "Sale (Dollars)", "County",
\* "City" or "Invoice/Item Number" cell of the file is null.
HasNullCell(f) ==
    \E r \in 1..Len(f) :
        \E c \in {"Category Name", "Date", "Bottles Sold", "Sale (Dollars)",
                  "County", "City", "Invoice/Item Number"} :
            IsNull(SourceCell(f[r], c))

\* The second threshold is tried where it can matter: on the files that hold
\* a null cell.
Inputs ==
    {[schema |-> ExpectedColumns, source |-> ft[1], threshold |-> ft[2]] :
        ft \in {x \in (CategoryFiles \cup DateFiles \cup BottleFiles
                          \cup GroupFiles \cup CityFiles) \X Thresholds :
                    x[2] = TenPercent \/ HasNullCell(x[1])}}
    \cup {[schema |-> s, source |-> f, threshold |-> t] :
        s \in PrunedSchemas, f \in NullFiles, t \in Thresholds}
    \cup {[schema |-> s, source |-> <<TypicalRow>>, threshold |-> t] :
        s \in Schemas, t \in Thresholds}

Init ==
    /\ \E in \in Inputs :
          /\ schema = in.schema
          /\ source = in.source
          /\ threshold = in.threshold
    /\ pc = "size_estimate"
    /\ columns_to_drop = {}
    /\ df_cleaned = <<>>
    /\ df_with_categories = <<>>
    /\ results = <<>>
    /\ materialized = <<>>
    /\ outcome = <<>>

Next ==
    \/ SizeEstimateCell
    \/ FirstRowsCell
    \/ MissingValueCell
    \/ CleaningCell
    \/ UniqueCategoriesCell
    \/ CategoryCell
    \/ SummaryCell
    \/ TopCategoriesCell
    \/ TopCountiesCell
    \/ CityEfficiencyCell

Spec == Init /\ [][Next]_vars

-----------------------------------------------------------------------------
(* Properties.                                                             *)

\* The cleaning cell has returned df_cleaned.
CleaningBuilt == "cleaning" \in DOMAIN outcome
\* The category cell has collected its three diagnostics.
Classified == "sample_mappings" \in DOMAIN results

\* The "Category Name" -> Major_Category pairs the category cell collected.
Mappings == results["sample_mappings"]

RuleOrder ==
    <<"WHISKEY", "VODKA", "RUM", "TEQUILA & MEZCAL", "GIN", "BRANDY & COGNAC",
      "SCHNAPPS", "LIQUEURS & CORDIALS", "SPECIALTY & OTHER SPIRITS",
      "READY-TO-DRINK", "CRAFT/LOCAL", "ADMINISTRATIVE/NON-PRODUCT">>

\* The rules whose pattern occurs in the text of a cell: none in a null.
MatchingRules ==
    [cell \in OrNull(CategoryNames) |->
        {i \in 1..Len(Rules) :
            cell.k = "val" /\ StrContains(cell.v, Rules[i].alts)}]
Matches(cell, i) == i \in MatchingRules[cell]

\* C1: every row's Major_Category is the label of the earliest rule, in the
\* order WHISKEY, VODKA, ..., ADMINISTRATIVE/NON-PRODUCT, whose pattern
\* matches its "Category Name" ignoring case; a value that matches an
\* earlier and a later rule gets the earlier rule's label.
FirstMatchWins ==
    Classified =>
        /\ [i \in 1..Len(Rules) |-> Rules[i].label] = RuleOrder
        /\ \A r \in 1..Len(source) :
              \E m \in Mappings : m.name = source[r].cat
        /\ \A m \in Mappings : \A i \in 1..Len(Rules) :
              (Matches(m.name, i) /\ \A j \in 1..(i - 1) : ~Matches(m.name, j))
                  => m.label = Val(RuleOrder[i])
        /\ \A m \in Mappings :
              m.name \in {Val("Whiskey Cocktail"), Val("Iowa Distillery Whiskey")}
                  => m.label = Val("WHISKEY")

\* A value matching both the WHISKEY and the READY-TO-DRINK rule, and one
\* matching both the WHISKEY and the CRAFT/LOCAL rule, have been classified.
FirstMatchWinsWitness ==
    /\ Classified
    /\ \E m \in Mappings :
          /\ m.name = Val("Whiskey Cocktail")
          /\ Matches(m.name, 1) /\ Matches(m.name, 10)
          /\ m.label = Val("WHISKEY")
    /\ \E m \in Mappings :
          /\ m.name = Val("Iowa Distillery Whiskey")
          /\ Matches(m.name, 1) /\ Matches(m.name, 11)

LabelSet ==
    {RuleOrder[i] : i \in 1..Len(RuleOrder)} \cup {"UNCATEGORIZED"}

\* C2: every row, whatever its "Category Name" (null included), gets exactly
\* one Major_Category, a member of the 13-label set.
ClassificationTotal ==
    Classified =>
        /\ Cardinality(LabelSet) = 13
        /\ \A r \in 1..Len(source) :
              \E m \in Mappings :
                  /\ m.name = source[r].cat
                  /\ m.label.k = "val" /\ m.label.v \in LabelSet
        /\ \A m1, m2 \in Mappings : m1.name = m2.name => m1.label = m2.label
        /\ \A m \in Mappings : m.label.k = "val" /\ m.label.v \in LabelSet
        /\ \A g \in results["category_distribution"] :
              g.key.k = "val" /\ g.key.v \in LabelSet /\ g.count >= 1

\* Rows with a null, a matched and an unmatched "Category Name" have all
\* been labelled.
ClassificationTotalWitness ==
    /\ Classified
    /\ \E m \in Mappings : m.name = Null
    /\ \E m \in Mappings : m.name = Val("Unknown Spirit Blend")
    /\ \E m \in Mappings : m.name = Val("Triple Sec")

\* No rule's pattern occurs in the cell (a null holds no text).
Unmatched(cell) == cell.k = "null" \/ MatchingRules[cell] = {}

ScenarioNames ==
    <<Val("Iowa Distillery Whiskey"), Val("Triple Sec"),
      Val("Unknown Spirit Blend"), Null, Val("Premium Vodka")>>
ScenarioLabels ==
    <<"WHISKEY", "LIQUEURS & CORDIALS", "UNCATEGORIZED", "UNCATEGORIZED",
      "VODKA">>

\* C3: a row is labelled UNCATEGORIZED exactly when its "Category Name" is
\* null or matches no rule; the fallback report lists exactly the distinct
\* source values no rule matched; the five-row scenario classifies as given.
FallbackIffUnmatched ==
    Classified =>
        /\ \A m \in Mappings :
              (m.label = Val("UNCATEGORIZED")) <=> Unmatched(m.name)
        /\ {u.key : u \in results["uncategorized"]}
              = {source[r].cat : r \in {x \in 1..Len(source) :
                                            Unmatched(source[x].cat)}}
        /\ \A u \in results["uncategorized"] : u.count >= 1
        /\ [r \in 1..Len(source) |-> source[r].cat] = ScenarioNames
              => \A r \in 1..Len(source) :
                    [name |-> source[r].cat, label |-> Val(ScenarioLabels[r])]
                        \in Mappings

\* The five-row scenario has been classified, and its null and its unmatched
\* value are in the fallback report.
FallbackIffUnmatchedWitness ==
    /\ Classified
    /\ [r \in 1..Len(source) |-> source[r].cat] = ScenarioNames
    /\ {u.key : u \in results["uncategorized"]}
          = {Null, Val("Unknown Spirit Blend")}

\* The drop step of df_cleaned, and the columns left after it.
DropPlan == df_cleaned[1].reads
AfterDrop == Resolve(SubSeq(df_cleaned, 1, 1), schema)

\* The rows the missing-value cell samples.
Sampled == FrameHead(source, SAMPLE_FOR_NULLS_ROWS)

NullIn(col, nulls, rows) ==
    NullCount(Sampled, col) = nulls /\ Height(Sampled) = rows

DropIsIdempotent ==
    CleaningBuilt =>
        LET once == ResolveStep([ok |-> TRUE, cols |-> schema], df_cleaned[1])
            twice == ResolveStep(once, df_cleaned[1])
        IN  /\ once.ok
            /\ once.cols = schema \ AllColumnsToDrop(columns_to_drop)
            /\ twice.ok
            /\ twice.cols = once.cols

\* C6: is_weekend is true exactly for the rows whose date is a Saturday or a
\* Sunday, weekday 6 or 7 of the Weekday column.
WeekendIsSaturdaySunday ==
    CleaningBuilt =>
        \A r \in 1..Len(source) :
            EvalCell(source[r], "Weekday").k = "val"
                => EvalCell(source[r], "is_weekend")
                     = Val(EvalCell(source[r], "Weekday").v \in {6, 7})

\* C7: a value that cannot be cast or parsed becomes null and no query
\* aborts over it.
ParseFailureIsNotFatal ==
    \A c \in DOMAIN outcome : outcome[c] # "InvalidOperationError"

\* The sum, per distinct key, of a measure over the rows of the file.
RECURSIVE SumOverRows(_, _, _, _)
SumOverRows(r, col, key, measure) ==
    IF r = 0 THEN 0
    ELSE SumOverRows(r - 1, col, key, measure)
           + (IF EvalCell(source[r], col) = key
                  /\ ~IsNull(EvalCell(source[r], measure))
              THEN source[r].n * EvalCell(source[r], measure).v ELSE 0)

TopNHolds(top, col, n) ==
    LET keys == {EvalCell(source[r], col) : r \in 1..Len(source)}
        total(k) == SumOverRows(Len(source), col, k, "Sale (Dollars)")
        returned == {top[i].key : i \in 1..Len(top)}
    IN  /\ Len(top) <= n
        /\ Len(top) = n \/ returned = keys
        /\ returned \subseteq keys
        /\ \A i, j \in 1..Len(top) : i # j => top[i].key # top[j].key
        /\ \A i, j \in 1..Len(top) : i < j => top[i].total >= top[j].total
        /\ \A i \in 1..Len(top) : top[i].total = total(top[i].key)
        /\ \A k \in keys \ returned :
              \A i \in 1..Len(top) : total(k) <= top[i].total

ScenarioSums ==
    {[key |-> Val("POLK"), total |-> 300], [key |-> Val("LINN"), total |-> 500],
     [key |-> Val("SCOTT"), total |-> 500]}

\* C8: a grouped top-N query returns at most n rows, one per group key, in
\* non-increasing order of the summed measure, each with its group's sum,
\* and omits no group whose sum is larger than a returned one; from sums
\* {A: 300, B: 500, C: 500} with n = 2 it returns B and C.
TopNCorrect ==
    /\ "top_categories" \in DOMAIN results
          => TopNHolds(results["top_categories"], "Major_Category",
                       TopCategoriesHead)
    /\ "top_counties" \in DOMAIN results
          => /\ TopNHolds(results["top_counties"], "County", TopCountiesHead)
             /\ (GroupBySum(source, "County", "Sale (Dollars)") = ScenarioSums
                    /\ TopCountiesHead = 2)
                   => {results["top_counties"][i].key :
                          i \in 1..Len(results["top_counties"])}
                        = {Val("LINN"), Val("SCOTT")}

\* The scenario's three counties were ranked and the smallest left out.
TopNCorrectWitness ==
    /\ "top_counties" \in DOMAIN results
    /\ "top_categories" \in DOMAIN results
    /\ GroupBySum(source, "County", "Sale (Dollars)") = ScenarioSums
    /\ Len(results["top_counties"]) = 2
    /\ results["top_counties"][1].key = Val("SCOTT")
    /\ Len(results["top_categories"]) = 2

\* C9: a declared string column that the drop plan removes is left out of
\* the string cast, and the pipeline is built and evaluated without error.
StringCastSkipsDropped ==
    LET dropped == STRING_COLUMNS \cap DropPlan
    IN  (/\ "unique_categories" \in DOMAIN outcome
         /\ dropped # {}
         /\ "Category" \in AfterDrop.cols
         /\ NUMERIC_COLUMNS \cup {"Date"} \subseteq AfterDrop.cols)
            => /\ df_cleaned[3].reads \cap dropped = {}
               /\ outcome["unique_categories"] = "ok"

\* C10: a column missing from the schema the pipeline is built over is
\* reported when the pipeline is assembled; it does not first surface when a
\* later cell collects.
SchemaErrorAtAssembly ==
    \A c \in DOMAIN outcome :
        (/\ c \notin {"missing_values", "cleaning"}
         /\ outcome[c] = "ColumnNotFoundError"
         /\ STRING_COLUMNS \cap DropPlan = {})
            => Resolve(df_cleaned, schema).ok

-----------------------------------------------------------------------------
(* The size estimate.                                                      *)

\* The divisor the estimate would use if it were the number of rows sampled.
SampleRows(num_rows) ==
    IF num_rows < SIZE_SAMPLE_ROWS THEN num_rows ELSE SIZE_SAMPLE_ROWS

\* C11: estimated_bytes = (sample_byte_size / sample_rows) * row_count with
\* sample_rows clamped to row_count, so a dataset of fewer rows than the
\* requested sample is estimated at its sample's byte size; zero rows give
\* zero bytes.
SizeEstimateClamped ==
    "size_estimate" \in DOMAIN results =>
        LET e == results["size_estimate"]
        IN  /\ e.num_rows = Height(source)
            /\ IF e.num_rows = 0
               THEN e.estimated_total_bytes = Fraction(0, 1)
               ELSE e.estimated_total_bytes =
                        Scaled(e.num_rows,
                               Fraction(e.sample_bytes, SampleRows(e.num_rows)))
            /\ e.num_rows < SIZE_SAMPLE_ROWS
                   => e.estimated_total_bytes = Fraction(e.sample_bytes, 1)

-----------------------------------------------------------------------------
(* The per-city ratio.                                                     *)

\* The runs of the source whose "City" cell is `key`.
RowsOfCity(key) == {r \in 1..Len(source) : SourceCell(source[r], "City") = key}

\* The distinct "Invoice/Item Number" cells of a city's rows, null included.
InvoicesOfCity(key) ==
    {SourceCell(source[r], "Invoice/Item Number") : r \in RowsOfCity(key)}

\* C12: Avg Sale per Txn is the aggregated sum of "Sale (Dollars)" over the
\* aggregated distinct count of "Invoice/Item Number"; every emitted group
\* has at least one row, so its denominator is at least 1 and no ratio is a
\* division by zero.
RatioDenominatorPositive ==
    "city_efficiency" \in DOMAIN results =>
        \A i \in DOMAIN results["city_efficiency"] :
            LET g == results["city_efficiency"][i]
            IN  /\ RowsOfCity(g.key) # {}
                /\ g.total = SumOverRows(Len(source), "City", g.key, "Sale (Dollars)")
                /\ g.n = Cardinality(InvoicesOfCity(g.key))
                /\ g.n >= 1
                /\ g.avg.k = "val"
                /\ g.avg.v.num * g.n = g.total * g.avg.v.den

\* A collected city_efficiency that head() truncated and that holds a city
\* whose invoice numbers are all null, and a city without sales.
RatioDenominatorPositiveWitness ==
    /\ "city_efficiency" \in DOMAIN results
    /\ Len(results["city_efficiency"]) = CityEfficiencyHead
    /\ Cardinality({SourceCell(source[r], "City") : r \in 1..Len(source)})
           > CityEfficiencyHead
    /\ \E i \in DOMAIN results["city_efficiency"] :
          InvoicesOfCity(results["city_efficiency"][i].key) = {Null}
    /\ \E i \in DOMAIN results["city_efficiency"] :
          results["city_efficiency"][i].total = 0

-----------------------------------------------------------------------------
(* What is held in memory.                                                 *)

\* The distinct cells of a column of the file.
DistinctIn(col) == {SourceCell(source[r], col) : r \in 1..Len(source)}

\* The most rows a collected frame may hold: the size of its prefix, one
\* row for a reduction, one row per key for a grouping, the head of a top-N.
HeldBound ==
    ("num_rows" :> 1)
    @@ ("sample" :> SIZE_SAMPLE_ROWS)
    @@ ("first_rows" :> FIRST_ROWS)
    @@ ("sample_for_nulls" :> SAMPLE_FOR_NULLS_ROWS)
    @@ ("unique_categories" :> Cardinality(DistinctIn("Category")))
    @@ ("category_distribution" :> Len(Rules) + 1)
    @@ ("uncategorized" :> Cardinality(DistinctIn("Category Name")))
    @@ ("sample_mappings" :> Cardinality(DistinctIn("Category Name")))
    @@ ("summary_stats" :> 1)
    @@ ("top_categories" :> TopCategoriesHead)
    @@ ("top_counties" :> TopCountiesHead)
    @@ ("city_efficiency" :> CityEfficiencyHead)

\* The frames collected before the cleaning cell runs.
HeldBeforeCleaning == {"num_rows", "sample", "first_rows", "sample_for_nulls"}

-----------------------------------------------------------------------------
(* Classification keeps the rows.                                          *)

\* The sum of the 'count' column of a grouped frame.
RECURSIVE SumOfCounts(_)
SumOfCounts(groups) ==
    IF groups = {} THEN 0
    ELSE LET g == CHOOSE x \in groups : TRUE
         IN  g.count + SumOfCounts(groups \ {g})

\* C14: category_distribution has one row per assigned label, and its
\* counts add up to the Total Transactions of summary_stats, the number of
\* rows of the source.
CountsAddUp ==
    Classified =>
        LET dist == results["category_distribution"]
        IN  /\ \A g1, g2 \in dist : g1.key = g2.key => g1 = g2
            /\ {g.key : g \in dist} =
                   {EvalCell(source[r], "Major_Category") : r \in 1..Len(source)}
            /\ \A g \in dist : g.count >= 1
            /\ SumOfCounts(dist) = Height(source)
            /\ "summary_stats" \in DOMAIN results =>
                   SumOfCounts(dist) = results["summary_stats"].transactions

\* A summarised file whose rows fall under several labels, one of them the
\* fallback given to a null "Category Name".
CountsAddUpWitness ==
    /\ Classified
    /\ "summary_stats" \in DOMAIN results
    /\ Cardinality(results["category_distribution"]) >= 3
    /\ \E r \in 1..Len(source) : IsNull(source[r].cat)
    /\ results["summary_stats"].transactions >= 5
====
